---- MODULE Spec2Model ----
(***************************************************************************)
(* Model of the timeout-injection scripts of the repository:               *)
(*   tool/add_all_timeouts.py     add_timeout_to_file, process_file_simple, *)
(*                                main                                      *)
(*   tool/add_timeouts_to_tests.py  process_file, main                      *)
(*                                                                          *)
(* A file's text is the list  content.split('\n')  of its lines (the       *)
(* scripts never look at the text in another shape, except for two         *)
(* whole-content searches that are stated on the lines below).  A line is  *)
(* a sequence of lexical fragments; each fragment stands for one piece of  *)
(* Dart text and carries exactly the features the scripts test: the        *)
(* number of "{" and "}" it holds, whether it holds "});", "timeout:",     *)
(* "Timeout(", "timeout: Timeout(Duration(seconds:", and whether the two   *)
(* regular expressions of the scripts match on it.                         *)
(***************************************************************************)
EXTENDS Integers, Sequences, FiniteSets, TLC

\* ------------------------------------------------------------------ bounds
MaxLines == 4

\* --------------------------------------------------------- program constants
DEFAULT_TIMEOUT == 5
NETWORK_TIMEOUT == 10
\* range(max(0, i - 50), i): how far process_file_simple looks back
LookBack == 50

\* ------------------------------------------------------------- fragments
\*  T   test('x', () async {
\*  TA  test('x', () async => doSomething());
\*  S   doSomething();
\*  O   foo(() {          (also  group('g', () {  and  if (c) {)
\*  C   }
\*  E   });
\*  M   }, timeout: Timeout(Duration(seconds: n)));
\*  U   }, timeout: Timeout(Duration(minutes: 1)));
Frag(kind) == [k |-> kind, n |-> 0]

\* the text that both scripts put in the place of "});"
TimeoutText(timeout) == [k |-> "M", n |-> timeout]

\* str.count('{') of one fragment
OpenCount(f) == IF f.k \in {"T", "O"} THEN 1 ELSE 0

\* str.count('}') of one fragment
CloseCount(f) == IF f.k \in {"C", "E", "M", "U"} THEN 1 ELSE 0

RECURSIVE SumOver(_, _, _)
SumOver(line, i, acc) ==
    IF i > Len(line) THEN acc
    ELSE SumOver(line, i + 1, acc + OpenCount(line[i]) - CloseCount(line[i]))

\* line.count('{') - line.count('}')
BraceDelta(line) == SumOver(line, 1, 0)

\* '});' in line
HasClosing(line) == \E i \in 1..Len(line) : line[i].k = "E"

\* 'timeout:' in line
HasTimeoutColon(line) == \E i \in 1..Len(line) : line[i].k \in {"M", "U"}

\* 'Timeout(' in line
HasTimeoutCall(line) == \E i \in 1..Len(line) : line[i].k \in {"M", "U"}

\* 'timeout:' not in line and 'Timeout(' not in line
NoTimeoutIn(line) == ~HasTimeoutColon(line) /\ ~HasTimeoutCall(line)

\* 'timeout: Timeout(Duration(seconds:' in content
HasSecondsTimeout(lines) ==
    \E i \in 1..Len(lines) : \E p \in 1..Len(lines[i]) : lines[i][p].k = "M"

\* re.search(r"test\s*\([^)]+\)\s*async", line)
IsAsyncTestLine(line) == \E i \in 1..Len(line) : line[i].k \in {"T", "TA"}

\* re.search(r"test\s*\([^)]+\)\s*async\s*\{", line)
IsAsyncBlockLine(line) == \E i \in 1..Len(line) : line[i].k = "T"

\* list(re.finditer(r"test\s*\([^)]+\)\s*async\s*\{", content)) is not empty
HasAsyncBlock(lines) == \E i \in 1..Len(lines) : IsAsyncBlockLine(lines[i])

\* line.replace('});', f'}}, timeout: Timeout(Duration(seconds: {timeout})));')
ReplaceClosing(line, timeout) ==
    [i \in 1..Len(line) |->
        IF line[i].k = "E" THEN TimeoutText(timeout) ELSE line[i]]

\* ------------------------------------------- process_file_simple (add_all)
Max(a, b) == IF a > b THEN a ELSE b

\* for j in range(max(0, i - 50), i): if re.search(..., lines[j])
SimpleTestAbove(lines, i) ==
    \E j \in Max(1, i - LookBack)..(i - 1) : IsAsyncTestLine(lines[j])

\* SimpleScanLine with  modified = True  one level out, above the inner loop
SimpleScanLine_FlagEarly(lines, i, timeout) ==
    IF HasClosing(lines[i]) /\ NoTimeoutIn(lines[i])
    THEN [line |-> IF SimpleTestAbove(lines, i)
                   THEN ReplaceClosing(lines[i], timeout) ELSE lines[i],
          modified |-> TRUE]
    ELSE [line |-> lines[i], modified |-> FALSE]

\* one pass of the body of  for i in range(len(lines) - 1, -1, -1)
SimpleScanLine(lines, i, timeout) ==
    IF HasClosing(lines[i]) /\ NoTimeoutIn(lines[i]) /\ SimpleTestAbove(lines, i)
    THEN [line |-> ReplaceClosing(lines[i], timeout), modified |-> TRUE]
    ELSE [line |-> lines[i], modified |-> FALSE]

RECURSIVE SimpleLoop(_, _, _, _)
SimpleLoop(lines, i, timeout, modified) ==
    IF i < 1 THEN [lines |-> lines, modified |-> modified]
    ELSE LET r == SimpleScanLine(lines, i, timeout)
         IN  SimpleLoop([lines EXCEPT ![i] = r.line], i - 1, timeout,
                        modified \/ r.modified)

\* the function between its read and its write: the lines it would write,
\* whether it writes, and what it returns
process_file_simple(lines, timeout) ==
    IF HasSecondsTimeout(lines) \/ ~HasAsyncBlock(lines)
    THEN [lines |-> lines, write |-> FALSE, ret |-> FALSE]
    ELSE LET r == SimpleLoop(lines, Len(lines), timeout, FALSE)
         IN  [lines |-> r.lines, write |-> r.modified, ret |-> r.modified]

\* ------------------------------------------ process_file (add_timeouts_to_tests)
\* timeout = NETWORK_TIMEOUT if network_test else DEFAULT_TIMEOUT
TimeoutOf(network_test) ==
    IF network_test THEN NETWORK_TIMEOUT ELSE DEFAULT_TIMEOUT

\* while j < len(lines) and brace_count > 0: the index it breaks at, 0 if none
RECURSIVE PFFindClose(_, _, _)
PFFindClose(lines, j, brace_count) ==
    IF ~(j <= Len(lines) /\ brace_count > 0) THEN 0
    ELSE LET b == brace_count + BraceDelta(lines[j])
         IN  IF b = 0 /\ HasClosing(lines[j]) THEN j
             ELSE PFFindClose(lines, j + 1, b)

\* the body of  if re.search(r"test\s*\([^)]+\)\s*async", line)
PFScanTest(lines, i, timeout) ==
    LET j == PFFindClose(lines, i + 1, 1)
    IN  IF j # 0 /\ NoTimeoutIn(lines[j])
        THEN [lines |-> [lines EXCEPT ![j] = ReplaceClosing(lines[j], timeout)],
              modified |-> TRUE]
        ELSE [lines |-> lines, modified |-> FALSE]

RECURSIVE PFLoop(_, _, _, _)
PFLoop(lines, i, timeout, modified) ==
    IF i > Len(lines) THEN [lines |-> lines, modified |-> modified]
    ELSE IF IsAsyncTestLine(lines[i])
         THEN LET r == PFScanTest(lines, i, timeout)
              IN  PFLoop(r.lines, i + 1, timeout, modified \/ r.modified)
         ELSE PFLoop(lines, i + 1, timeout, modified)

process_file(lines, network_test) ==
    IF HasSecondsTimeout(lines) \/ ~HasAsyncBlock(lines)
    THEN [lines |-> lines, write |-> FALSE, ret |-> FALSE]
    ELSE LET r == PFLoop(lines, 1, TimeoutOf(network_test), FALSE)
         IN  [lines |-> r.lines, write |-> r.modified, ret |-> r.modified]

\* ------------------------------------------- add_timeout_to_file (add_all)
\* while j < len(lines) and brace_count > 0: the value of j it ends with
RECURSIVE ATFScan(_, _, _)
ATFScan(lines, j, brace_count) ==
    IF ~(j <= Len(lines) /\ brace_count > 0) THEN j
    ELSE ATFScan(lines, j + 1, brace_count + BraceDelta(lines[j]))

RECURSIVE ATFLoop(_, _, _, _, _)
ATFLoop(lines, i, timeout, modified_lines, modified) ==
    IF i > Len(lines)
    THEN [lines |-> modified_lines, modified |-> modified]
    ELSE LET out == Append(modified_lines, lines[i])
             j == ATFScan(lines, i + 1, BraceDelta(lines[i]))
         IN  IF /\ IsAsyncBlockLine(lines[i])
                /\ j <= Len(lines)
                /\ HasClosing(lines[j - 1])
                /\ NoTimeoutIn(lines[j - 1])
             THEN ATFLoop(lines, j, timeout,
                          [out EXCEPT ![Len(out)] =
                              ReplaceClosing(lines[j - 1], timeout)],
                          TRUE)
             ELSE ATFLoop(lines, i + 1, timeout, out, modified)

add_timeout_to_file(lines, timeout) ==
    LET r == ATFLoop(lines, 1, timeout, <<>>, FALSE)
    IN  [lines |-> r.lines, write |-> r.modified, ret |-> r.modified]

\* ---------------------------------------------------------------- inputs
\* the lines file texts are drawn from
LineCatalog ==
    { <<Frag("T")>>,
      <<Frag("T"), Frag("S"), Frag("E")>>,
      <<Frag("TA")>>,
      <<Frag("S")>>,
      <<Frag("O")>>,
      <<Frag("C")>>,
      <<Frag("E")>>,
      <<TimeoutText(NETWORK_TIMEOUT)>>,
      <<Frag("U")>> }

\* content.split('\n') always holds at least one line
Texts == UNION { [1..n -> LineCatalog] : n \in 1..MaxLines }

Functions == {"process_file_simple", "process_file", "add_timeout_to_file"}

\* ------------------------------------------------------- the batch drivers
\* the *_test.dart names of the model, in the order sorted() puts them
NameOrder ==
    << "core_test.dart", "discovery_test.dart",
       "music_library_test.dart", "zonegroupstate_test.dart" >>

Names == { NameOrder[i] : i \in 1..Len(NameOrder) }

Rank(name) == CHOOSE i \in 1..Len(NameOrder) : NameOrder[i] = name

\* sorted(test_files)
RECURSIVE Sorted(_)
Sorted(S) ==
    IF S = {} THEN <<>>
    ELSE LET m == CHOOSE x \in S : \A y \in S : Rank(x) <= Rank(y)
         IN  <<m>> \o Sorted(S \ {m})

network_test_files == {"discovery_test.dart", "zonegroupstate_test.dart"}

\* add_all_timeouts.main: "Files already processed"
processed_files == {"core_test.dart", "alarms_test.dart", "discovery_test.dart"}

\* is_network_test = test_file.name in network_test_files
IsNetworkTest(name) == name \in network_test_files

\* MainTimeout with the network case lost
MainTimeout_AlwaysDefault(is_network_test) == DEFAULT_TIMEOUT

\* add_all_timeouts.main: NETWORK_TIMEOUT if is_network_test else DEFAULT_TIMEOUT
MainTimeout(is_network_test) ==
    IF is_network_test THEN NETWORK_TIMEOUT ELSE DEFAULT_TIMEOUT

\* the except clause returning True
ExceptReturn_True == TRUE

\* what the per-file function returns from  except Exception
ExceptReturn == FALSE

\* a file just opened with mode 'w': no bytes, which splits to one empty line
Truncated == << <<>> >>

\* what a write that fails part way can leave of the new content
PartialWrites(lines) ==
    {Truncated} \cup { SubSeq(lines, 1, k) : k \in 1..(Len(lines) - 1) }

\* the file texts of the modelled test directory
BatchTexts ==
    { << <<Frag("T")>>, <<Frag("S")>>, <<Frag("E")>> >>,
      << <<Frag("S")>> >>,
      << <<Frag("T")>>, <<TimeoutText(NETWORK_TIMEOUT)>> >> }

\* -------------------------------------------------------------- variables
VARIABLES
    fn,        \* the per-file function under study
    timeout,   \* the duration it is called with
    input,     \* the file's lines before the first call
    prev,      \* the file's lines before the latest call
    text,      \* the file's lines now
    runs,      \* calls made so far
    ret,       \* what the latest call returned
    wrote,     \* whether the latest call opened the file for writing
    driver,         \* which script's main runs
    dirExists,      \* test_dir.exists()
    test_files,     \* test_dir.glob('*_test.dart')
    orig,           \* each file's lines when main starts
    disk,           \* each file's lines on disk now
    pc,             \* where main (or the per-file function it called) stands
    idx,            \* position of the for loop in sorted(test_files)
    pending,        \* new_content of the call in progress
    modified_count, \* main's counter
    visited,        \* the files the loop has taken, in order
    counted,        \* the files main counted as modified
    failed          \* the files whose call ended in the except clause

rvars == <<fn, timeout, input, prev, text, runs, ret, wrote>>

bvars == <<driver, dirExists, test_files, orig, disk, pc, idx, pending,
           modified_count, visited, counted, failed>>

vars == <<rvars, bvars>>

\* ------------------------------------------- one rewriter on one file: Spec
\* the function is run, and run again on what it left
Passes == 2

NoBatch ==
    /\ driver = "none"
    /\ dirExists = FALSE
    /\ test_files = {}
    /\ orig = << >>
    /\ disk = << >>
    /\ pc = "idle"
    /\ idx = 0
    /\ pending = << >>
    /\ modified_count = 0
    /\ visited = << >>
    /\ counted = {}
    /\ failed = {}

Init ==
    /\ fn \in Functions
    /\ timeout \in {DEFAULT_TIMEOUT, NETWORK_TIMEOUT}
    /\ input \in Texts
    /\ prev = input
    /\ text = input
    /\ runs = 0
    /\ ret = FALSE
    /\ wrote = FALSE
    /\ NoBatch

\* one call of the function on the file, its read and write both succeeding
Call(r) ==
    /\ runs < Passes
    /\ runs' = runs + 1
    /\ prev' = text
    /\ text' = IF r.write THEN r.lines ELSE text
    /\ ret' = r.ret
    /\ wrote' = r.write
    /\ UNCHANGED <<fn, timeout, input>>
    /\ UNCHANGED bvars

RunProcessFileSimple ==
    /\ fn = "process_file_simple"
    /\ Call(process_file_simple(text, timeout))

RunProcessFile ==
    /\ fn = "process_file"
    /\ Call(process_file(text, timeout = NETWORK_TIMEOUT))

RunAddTimeoutToFile ==
    /\ fn = "add_timeout_to_file"
    /\ Call(add_timeout_to_file(text, timeout))

Next ==
    \/ RunProcessFileSimple
    \/ RunProcessFile
    \/ RunAddTimeoutToFile

Spec == Init /\ [][Next]_vars

\* --------------------------------------------- a run of main: SpecBatch
NoRewrite ==
    /\ fn = "none"
    /\ timeout = 0
    /\ input = << >>
    /\ prev = << >>
    /\ text = << >>
    /\ runs = 0
    /\ ret = FALSE
    /\ wrote = FALSE

InitBatch ==
    /\ driver \in {"add_all_timeouts", "add_timeouts_to_tests"}
    /\ dirExists \in BOOLEAN
    /\ test_files \in (IF dirExists THEN SUBSET Names ELSE {{}})
    /\ orig \in [test_files -> BatchTexts]
    /\ disk = orig
    /\ pc = "main"
    /\ idx = 1
    /\ pending = << >>
    /\ modified_count = 0
    /\ visited = << >>
    /\ counted = {}
    /\ failed = {}
    /\ NoRewrite

\* the file the for loop stands at
Current == Sorted(test_files)[idx]

InLoop == pc = "loop" /\ idx <= Len(Sorted(test_files))

\* add_all_timeouts.main skips the names of processed_files
Skipped(name) == driver = "add_all_timeouts" /\ name \in processed_files

\* the per-file function main calls, from its read to its write
Rewrite(name, lines) ==
    IF driver = "add_all_timeouts"
    THEN process_file_simple(lines, MainTimeout(IsNetworkTest(name)))
    ELSE process_file(lines, IsNetworkTest(name))

\* the call returns `value` to main, which counts it and takes the next file
Return(value, raised) ==
    /\ modified_count' = IF value THEN modified_count + 1 ELSE modified_count
    /\ counted' = IF value THEN counted \cup {Current} ELSE counted
    /\ failed' = IF raised THEN failed \cup {Current} ELSE failed
    /\ visited' = Append(visited, Current)
    /\ idx' = idx + 1
    /\ pc' = "loop"
    /\ pending' = << >>

\* if not test_dir.exists(): sys.exit(1)
ExitNoDir ==
    /\ pc = "main" /\ ~dirExists
    /\ pc' = "exit"
    /\ UNCHANGED <<driver, dirExists, test_files, orig, disk, idx, pending,
                   modified_count, visited, counted, failed>>
    /\ UNCHANGED rvars

ListDir ==
    /\ pc = "main" /\ dirExists
    /\ pc' = "loop"
    /\ UNCHANGED <<driver, dirExists, test_files, orig, disk, idx, pending,
                   modified_count, visited, counted, failed>>
    /\ UNCHANGED rvars

\* "Already processed, skipping": continue
SkipProcessed ==
    /\ InLoop /\ Skipped(Current)
    /\ visited' = Append(visited, Current)
    /\ idx' = idx + 1
    /\ UNCHANGED <<driver, dirExists, test_files, orig, disk, pc, pending,
                   modified_count, counted, failed>>
    /\ UNCHANGED rvars

\* open(file_path, 'r') or f.read() raises
ReadFails ==
    /\ InLoop /\ ~Skipped(Current)
    /\ Return(ExceptReturn, TRUE)
    /\ UNCHANGED <<driver, dirExists, test_files, orig, disk>>
    /\ UNCHANGED rvars

\* the file is read and nothing is to be written: return False
ReadUnchanged ==
    /\ InLoop /\ ~Skipped(Current)
    /\ ~Rewrite(Current, disk[Current]).write
    /\ Return(Rewrite(Current, disk[Current]).ret, FALSE)
    /\ UNCHANGED <<driver, dirExists, test_files, orig, disk>>
    /\ UNCHANGED rvars

\* the file is read and modified is True: new_content = '\n'.join(lines)
ReadModified ==
    /\ InLoop /\ ~Skipped(Current)
    /\ Rewrite(Current, disk[Current]).write
    /\ pending' = Rewrite(Current, disk[Current]).lines
    /\ pc' = "open"
    /\ UNCHANGED <<driver, dirExists, test_files, orig, disk, idx,
                   modified_count, visited, counted, failed>>
    /\ UNCHANGED rvars

\* open(file_path, 'w') succeeds: the file is truncated
OpenForWrite ==
    /\ pc = "open"
    /\ disk' = [disk EXCEPT ![Current] = Truncated]
    /\ pc' = "write"
    /\ UNCHANGED <<driver, dirExists, test_files, orig, idx, pending,
                   modified_count, visited, counted, failed>>
    /\ UNCHANGED rvars

\* open(file_path, 'w') raises: the file is as it was
OpenFails ==
    /\ pc = "open"
    /\ Return(ExceptReturn, TRUE)
    /\ UNCHANGED <<driver, dirExists, test_files, orig, disk>>
    /\ UNCHANGED rvars

\* f.write(new_content) and the close succeed: return True
WriteDone ==
    /\ pc = "write"
    /\ disk' = [disk EXCEPT ![Current] = pending]
    /\ Return(TRUE, FALSE)
    /\ UNCHANGED <<driver, dirExists, test_files, orig>>
    /\ UNCHANGED rvars

\* f.write(new_content) or the close raises part way
WriteFails ==
    /\ pc = "write"
    /\ \E part \in PartialWrites(pending) :
           disk' = [disk EXCEPT ![Current] = part]
    /\ Return(ExceptReturn, TRUE)
    /\ UNCHANGED <<driver, dirExists, test_files, orig>>
    /\ UNCHANGED rvars

\* the loop is over: "Modified N files", "Done!"
Summary ==
    /\ pc = "loop" /\ idx > Len(Sorted(test_files))
    /\ pc' = "done"
    /\ UNCHANGED <<driver, dirExists, test_files, orig, disk, idx, pending,
                   modified_count, visited, counted, failed>>
    /\ UNCHANGED rvars

\* the process is killed (no Python exception is raised, nothing is caught)
Killed ==
    /\ pc \in {"loop", "open", "write"}
    /\ pc' = "killed"
    /\ UNCHANGED <<driver, dirExists, test_files, orig, disk, idx, pending,
                   modified_count, visited, counted, failed>>
    /\ UNCHANGED rvars

\* the steps of main and of the function it calls
Step ==
    \/ ExitNoDir
    \/ ListDir
    \/ SkipProcessed
    \/ ReadFails
    \/ ReadUnchanged
    \/ ReadModified
    \/ OpenForWrite
    \/ OpenFails
    \/ WriteDone
    \/ WriteFails
    \/ Summary

NextBatch == Step \/ Killed

SpecBatch == InitBatch /\ [][NextBatch]_vars

\* a run that nothing kills: main keeps taking its next step
SpecBatchRun == InitBatch /\ [][Step]_vars /\ WF_vars(Step)

\* ================================================================ claims
\* the two file rewriters the batch drivers call
Rewriters == {"process_file_simple", "process_file"}

\* lines holding a recognized  test(...) async {  declaration
DeclLines(lines) == { i \in 1..Len(lines) : IsAsyncBlockLine(lines[i]) }

\* where the declaration fragment stands in its line
DeclPos(line) == CHOOSE p \in 1..Len(line) : line[p].k = "T"

\* brace depth over the text from fragment p of line i on: the line on which
\* the depth first returns to 0, and 0 when it never does
RECURSIVE DepthScan(_, _, _, _)
DepthScan(lines, i, p, depth) ==
    IF i > Len(lines) THEN 0
    ELSE IF p > Len(lines[i]) THEN DepthScan(lines, i + 1, 1, depth)
    ELSE LET d == depth + OpenCount(lines[i][p]) - CloseCount(lines[i][p])
         IN  IF d = 0 THEN i ELSE DepthScan(lines, i, p + 1, d)

\* the line on which the block of the declaration of line d closes: depth 1
\* at the declaration's opening brace, counted over the text after it
BlockCloseLine(lines, d) == DepthScan(lines, d, DeclPos(lines[d]) + 1, 1)

\* C1: the file  test('x', () async { doSomething(); });  run with duration 5
\* is rewritten to  test('x', () async { doSomething(); }, timeout:
\* Timeout(Duration(seconds: 5)));  and the rewriter returns True.
C1_OneLineTestRewritten ==
    ( /\ runs = 1
      /\ fn \in Rewriters
      /\ timeout = DEFAULT_TIMEOUT
      /\ input = << <<Frag("T"), Frag("S"), Frag("E")>> >> )
    => /\ ret = TRUE
       /\ text = << <<Frag("T"), Frag("S"), TimeoutText(DEFAULT_TIMEOUT)>> >>

\* C2: locality.  In a file of two async test blocks whose first closing line
\* carries  timeout: Timeout(Duration(seconds: N))  and whose second carries
\* no timeout marker, the second closing line receives the timeout, the first
\* stays as it is, and the rewriter returns True.
C2_Locality ==
    \A d1, d2 \in DeclLines(input) :
        LET c1 == BlockCloseLine(input, d1)
            c2 == BlockCloseLine(input, d2)
        IN  ( /\ runs = 1
              /\ fn \in Rewriters
              /\ DeclLines(input) = {d1, d2}
              /\ d1 < c1 /\ c1 < d2 /\ d2 < c2
              /\ HasSecondsTimeout(<<input[c1]>>)
              /\ HasClosing(input[c2]) /\ NoTimeoutIn(input[c2]) )
            => /\ ret = TRUE
               /\ text[c1] = input[c1]
               /\ text[c2] = ReplaceClosing(input[c2], timeout)

\* C3: idempotence.  A second run of a rewriter on the file its first run
\* left returns False, does not write, and leaves the text as it was.
C3_Idempotent ==
    (runs >= 2 /\ fn \in Rewriters)
    => (ret = FALSE /\ ~wrote /\ text = prev)

\* C3 witness: the first run rewrote the file and the second has been made
C3_Witness ==
    /\ runs = 2
    /\ fn = "process_file_simple"
    /\ prev # input
    /\ HasSecondsTimeout(prev)

\* C4: every line a rewriter changes is the line on which the block of a
\* recognized declaration closes (the first point where brace depth, 1 at
\* the declaration's opening brace, returns to 0).
C4_OnlyClosingLinesChange ==
    (runs = 1 /\ fn \in Rewriters)
    => /\ Len(text) = Len(input)
       /\ \A i \in 1..Len(input) :
              text[i] # input[i]
              => \E d \in DeclLines(input) : BlockCloseLine(input, d) = i

\* C5: a file whose only recognized declaration never closes before the end
\* of the file is not changed: the rewriter returns False and does not write.
C5_UnterminatedUntouched ==
    \A d \in DeclLines(input) :
        ( /\ runs = 1
          /\ fn \in Rewriters
          /\ { i \in 1..Len(input) : IsAsyncTestLine(input[i]) } = {d}
          /\ BlockCloseLine(input, d) = 0 )
        => (ret = FALSE /\ ~wrote /\ text = input)

\* the closing line of the block of declaration d carries a timeout marker
BlockHasTimeout(lines, d) ==
    LET c == BlockCloseLine(lines, d)
    IN  c # 0 /\ ~NoTimeoutIn(lines[c])

\* C6: a file with no recognized declaration, or whose every recognized block
\* already carries a timeout marker (any duration, any unit), is not written:
\* the rewriter returns False and the text stays as it was.
C6_NoWriteWithoutInjection ==
    ( /\ runs = 1
      /\ fn \in Rewriters
      /\ \A d \in DeclLines(input) : BlockHasTimeout(input, d) )
    => (ret = FALSE /\ ~wrote /\ text = input)

\* C10: add_timeout_to_file writes as many lines as it read, in the same
\* order, each equal to the input line or to the input line with  });
\* replaced by the timeout text.
C10_LinesPreserved ==
    (runs = 1 /\ fn = "add_timeout_to_file")
    => /\ Len(text) = Len(input)
       /\ \A i \in 1..Len(input) :
              \/ text[i] = input[i]
              \/ text[i] = ReplaceClosing(input[i], timeout)

\* the durations of the timeout texts that file f holds now and did not hold
\* in the same place when main started
InjectedDurations(f) ==
    UNION { { disk[f][i][p].n :
                p \in { q \in 1..Len(disk[f][i]) :
                          /\ disk[f][i][q].k = "M"
                          /\ ~(/\ i <= Len(orig[f]) /\ q <= Len(orig[f][i])
                               /\ orig[f][i][q] = disk[f][i][q]) } } :
            i \in 1..Len(disk[f]) }

\* C7: every timeout injected into a file of the network set carries the
\* network duration 10, and into any other file the default duration 5,
\* whatever files were processed before it.
C7_DurationByName ==
    \A f \in test_files :
        \A n \in InjectedDurations(f) :
            n = (IF f \in network_test_files THEN NETWORK_TIMEOUT
                 ELSE DEFAULT_TIMEOUT)

\* C7 witness: one run of add_all_timeouts.main has injected 10 into a
\* network file and 5 into another file
C7_Witness ==
    /\ pc = "done"
    /\ driver = "add_all_timeouts"
    /\ {"music_library_test.dart", "zonegroupstate_test.dart"} \subseteq test_files
    /\ InjectedDurations("zonegroupstate_test.dart") = {NETWORK_TIMEOUT}
    /\ InjectedDurations("music_library_test.dart") = {DEFAULT_TIMEOUT}

\* C8: at every point of a batch run each file on disk holds its complete
\* original text or its complete rewritten text.
C8_CrashConsistent ==
    \A f \in test_files :
        \/ disk[f] = orig[f]
        \/ disk[f] = Rewrite(f, orig[f]).lines

\* what C9 says of every state of a run
C9_Safe ==
    /\ failed \cap counted = {}
    /\ modified_count = Cardinality(counted)
    /\ Len(visited) <= Len(Sorted(test_files))
    /\ visited = SubSeq(Sorted(test_files), 1, Len(visited))
    /\ pc = "done" => visited = Sorted(test_files)
    /\ pc = "exit" => ~dirExists

\* C9: a file whose read or write raises is reported and not counted in
\* modified_count; main goes on through the remaining files in sorted order
\* and, once the test directory exists, always reaches its summary.
C9_FailuresDoNotAbort ==
    /\ []C9_Safe
    /\ dirExists => <>(pc = "done")

\* C9 witness: the summary is reached after a call that raised was followed
\* by a call that modified a later file
C9_Witness ==
    /\ pc = "done"
    /\ \E f \in failed : \E g \in counted : Rank(f) < Rank(g)

====
